---- MODULE Spec2Model ----
(***************************************************************************)
(* Model of the Multiquip IoT platform (src/src/MultiquipPlatform.js):     *)
(* the rule-based root-cause diagnosis, the prediction pass over the       *)
(* equipment roster and the synthetic sensor generator.                    *)
(*                                                                         *)
(* Numbers are fixed point.  A sensor value stored in a reading carries    *)
(* the number of decimals the generator keeps (toFixed):                   *)
(*   temperature  1/100 F      vibration  1/1000 g                         *)
(*   pressure     1/10 PSI     current    1/100 A                          *)
(*   uptime       1/10 %       operating hours  1 h                        *)
(***************************************************************************)
EXTENDS Integers, Sequences, FiniteSets, TLC

VARIABLES
    \* EnhancedEquipmentPopup
    equipment,          \* the unit handed to the popup (an item of siteEquipment)
    selectedEquipment,  \* <<>> (null) or <<unit>>: the unit whose popup is open
    rootCauses,         \* analyzeRootCause(equipment) of the open popup, <<>> when closed
    \* generateSensorData: one call in progress
    genPc,              \* "idle", "loop" (at the loop test), "pushed", "returned"
    genDays,            \* the days argument
    genNow,             \* Date.now() of the call, in whole hours
    genBase,            \* baseTemp, baseVibration, basePressure drawn at the start
    genI,               \* the loop index i
    dataLen,            \* data.length
    reading,            \* <<>> or <<r>>: the record the iteration pushed, data[data.length - 1]
    \* generateMLPredictions: one call in progress, and the published set
    trainedModel,       \* the argument: <<>> (null) or <<model>>
    passPc,             \* "idle", "loop" (inside the for loop), "done"
    newPredictions,     \* the local array of the call
    classified,         \* history: per pushed prediction, the reading and the classifier's output
    mlPredictions,      \* the published prediction set (React state)
    published,          \* history: the value of classified when mlPredictions was set
    \* the classifier and trainPredictiveModel
    mlModel,            \* <<>> (null) or <<model>>: the installed classifier
    isTraining,         \* the flag that disables the Train button
    trainingProgress,   \* percent, in tenths
    modelMetrics,       \* accuracy, precision, recall, f1Score, in tenths of a percent
    runs,               \* the calls of trainPredictiveModel that have not reached finally
    runStatus,          \* history: per call, "running", "fitted" (fit resolved) or "failed"
    resetTimers,        \* pending timeouts of the finally block
    alertShown,         \* <<>> or <<text>>: the last alert() shown
    passes,             \* the calls of generateMLPredictions suspended at an await
    passOutcome,        \* how the last finished call ended
    passSettled,        \* how the promise of that call settled, as its caller sees it
    \* EquipmentModule: the site selector and loadSiteEquipment
    jobSites,           \* dashboardData.jobSites, as site names
    selectedSite,       \* the site chosen in the select element
    siteEquipment,      \* the processed units on display
    loadingEquipment,   \* the spinner flag of the module
    equipmentCalls,     \* the calls of loadSiteEquipment waiting for getEquipmentData
    shown,              \* history: the site and rows of the response siteEquipment came from
    \* loadDataFromSnowflake, the API service and the dashboard-data endpoint
    service,            \* which SnowflakeAPIService is loaded, and its useMockData
    loading,            \* the flag that disables the refresh button
    connectionStatus,   \* 'disconnected', 'connected' or 'error'
    dashboardData,      \* where the dashboard on display came from
    loads,              \* the calls of loadDataFromSnowflake suspended at an await
    snowflakeConnection,\* the server's connection: TRUE when set
    lastResponse,       \* history: <<>> or the last response of the endpoint
    lastHealth,         \* history: how the health request behind connectionStatus went
    lastDashboard       \* history: how the last getDashboardData call settled

diagVars == <<equipment, selectedEquipment, rootCauses>>
genVars == <<genPc, genDays, genNow, genBase, genI, dataLen, reading>>
passVars == <<trainedModel, passPc, newPredictions, classified, mlPredictions, published>>
classifierVars == <<mlModel, modelMetrics, isTraining, trainingProgress>>
trainVars == <<mlModel, modelMetrics, isTraining, trainingProgress,
               runs, runStatus, resetTimers, alertShown, passes, passOutcome, passSettled>>

siteVars == <<jobSites, selectedSite, siteEquipment, loadingEquipment, equipmentCalls, shown>>
loadVars == <<service, loading, connectionStatus, dashboardData, loads,
              snowflakeConnection, lastResponse, lastHealth, lastDashboard>>
restVars == <<siteVars, loadVars>>

vars == <<equipment, selectedEquipment, rootCauses,
          genPc, genDays, genNow, genBase, genI, dataLen, reading,
          trainedModel, passPc, newPredictions, classified, mlPredictions, published,
          mlModel, modelMetrics, isTraining, trainingProgress,
          runs, runStatus, resetTimers, alertShown, passes, passOutcome, passSettled,
          jobSites, selectedSite, siteEquipment, loadingEquipment, equipmentCalls, shown,
          service, loading, connectionStatus, dashboardData, loads,
          snowflakeConnection, lastResponse, lastHealth, lastDashboard>>

(***************************************************************************)
(* Thresholds of analyzeRootCause, in the fixed-point units above.         *)
(***************************************************************************)
TempCritical == 9500
TempWarning == 8500
VibrationCritical == 2000
VibrationWarning == 1500
PressureHigh == 1800
PressureLow == 800
CurrentWarning == 2500
UptimeMinimum == 850
HoursServiceInterval == 4000

\* How far around each threshold the diagnosed sensor values are sampled.
Margin == 1

Issue(type, sensor, value, threshold, status) ==
    [type |-> type, sensor |-> sensor, current |-> value,
     threshold |-> threshold, status |-> status]

\* Two independent ifs in place of the if / else-if chain.
temperatureIssues_bothTiers(temp) ==
    (IF temp > TempCritical
     THEN <<Issue("critical", "Temperature", temp, "95F", "CRITICAL - Overheating detected")>>
     ELSE <<>>)
    \o (IF temp > TempWarning
        THEN <<Issue("warning", "Temperature", temp, "85F", "HIGH - Above normal range")>>
        ELSE <<>>)

\* The sensor block of analyzeRootCause: temperature and vibration are
\* if / else-if chains, pressure one rule with two outcomes, current one rule.
temperatureIssues(temp) ==
    IF temp > TempCritical
    THEN <<Issue("critical", "Temperature", temp, "95F", "CRITICAL - Overheating detected")>>
    ELSE IF temp > TempWarning
         THEN <<Issue("warning", "Temperature", temp, "85F", "HIGH - Above normal range")>>
         ELSE <<>>

vibrationIssues(vibration) ==
    IF vibration > VibrationCritical
    THEN <<Issue("critical", "Vibration", vibration, "2.0g", "CRITICAL - Excessive vibration")>>
    ELSE IF vibration > VibrationWarning
         THEN <<Issue("warning", "Vibration", vibration, "1.5g", "HIGH - Unusual vibration levels")>>
         ELSE <<>>

\* The range test with its bounds included.
pressureIssues_inclusive(pressure) ==
    IF pressure >= PressureHigh \/ pressure <= PressureLow
    THEN <<Issue(IF pressure >= PressureHigh THEN "critical" ELSE "warning",
                 "Pressure", pressure, "80-180 PSI",
                 IF pressure >= PressureHigh THEN "CRITICAL - Pressure too high"
                                             ELSE "LOW - Pressure below minimum")>>
    ELSE <<>>

pressureIssues(pressure) ==
    IF pressure > PressureHigh \/ pressure < PressureLow
    THEN <<Issue(IF pressure > PressureHigh THEN "critical" ELSE "warning",
                 "Pressure", pressure, "80-180 PSI",
                 IF pressure > PressureHigh THEN "CRITICAL - Pressure too high"
                                            ELSE "LOW - Pressure below minimum")>>
    ELSE <<>>

currentIssues(current) ==
    IF current > CurrentWarning
    THEN <<Issue("warning", "Current", current, "25A", "HIGH - Electrical overload")>>
    ELSE <<>>

sensorIssues(eq) ==
    IF eq.mlPrediction /= <<>>
    THEN LET sensors == eq.mlPrediction[1].sensors
         IN  temperatureIssues(sensors.temperature)
               \o vibrationIssues(sensors.vibration)
               \o pressureIssues(sensors.pressure)
               \o currentIssues(sensors.current)
    ELSE <<>>

statusIssues(status) ==
    IF status = "critical"
    THEN <<Issue("critical", "System Status", 0, "OPERATIONAL", "CRITICAL - Equipment malfunction")>>
    ELSE IF status = "maintenance"
         THEN <<Issue("warning", "Maintenance Schedule", 0, "CURRENT", "Scheduled maintenance overdue")>>
         ELSE <<>>

\* The uptime test with 85 % included.
uptimeIssues_inclusive(uptime) ==
    IF uptime <= UptimeMinimum
    THEN <<Issue("warning", "Uptime", uptime, "85%", "LOW - Poor reliability")>>
    ELSE <<>>

uptimeIssues(uptime) ==
    IF uptime < UptimeMinimum
    THEN <<Issue("warning", "Uptime", uptime, "85%", "LOW - Poor reliability")>>
    ELSE <<>>

operatingHoursIssues(hours) ==
    IF hours > HoursServiceInterval
    THEN <<Issue("info", "Operating Hours", hours, "4000h", "HIGH - Major service interval approaching")>>
    ELSE <<>>

\* A critical status ends the analysis: uptime and operating hours are skipped.
analyzeRootCause_criticalStops(eq) ==
    IF eq.status = "critical"
    THEN sensorIssues(eq) \o statusIssues(eq.status)
    ELSE sensorIssues(eq)
           \o statusIssues(eq.status)
           \o uptimeIssues(eq.uptime)
           \o operatingHoursIssues(eq.operatingHours)

\* analyzeRootCause: the issues in the order the rules are evaluated; the
\* function does not sort.
analyzeRootCause(eq) ==
    sensorIssues(eq)
      \o statusIssues(eq.status)
      \o uptimeIssues(eq.uptime)
      \o operatingHoursIssues(eq.operatingHours)

\* EnhancedEquipmentPopup: the three filters the popup renders one after another.
IsCritical(issue) == issue.type = "critical"
IsWarning(issue) == issue.type = "warning"
IsInfo(issue) == issue.type = "info"

criticalIssues == SelectSeq(rootCauses, IsCritical)
warningIssues == SelectSeq(rootCauses, IsWarning)
infoIssues == SelectSeq(rootCauses, IsInfo)

\* The popup renders the issues as returned, without grouping them.
displayedIssues_ruleOrder == rootCauses

\* The order in which the popup shows the issues.
displayedIssues == criticalIssues \o warningIssues \o infoIssues

(***************************************************************************)
(* Units the diagnosis is applied to.                                      *)
(***************************************************************************)
Around(threshold) == {threshold + d : d \in (0 - Margin)..Margin}

TemperatureInputs == Around(TempWarning) \cup Around(TempCritical)
VibrationInputs == Around(VibrationWarning) \cup Around(VibrationCritical)
PressureInputs == Around(PressureLow) \cup Around(PressureHigh)
CurrentInputs == {1000, CurrentWarning, CurrentWarning + 1}
StatusInputs == {"operational", "maintenance", "critical", "idle"}
UptimeInputs == {0, UptimeMinimum - 1, UptimeMinimum, 950}
HoursInputs == {0, HoursServiceInterval, HoursServiceInterval + 1}

SensorInputs ==
    [temperature : TemperatureInputs, vibration : VibrationInputs,
     pressure : PressureInputs, current : CurrentInputs]

PredictionInputs == {<<>>} \cup {<<[sensors |-> s]>> : s \in SensorInputs}

EquipmentInputs ==
    [mlPrediction : PredictionInputs, status : StatusInputs,
     uptime : UptimeInputs, operatingHours : HoursInputs]

GenIdle ==
    /\ genPc = "idle"
    /\ genDays = 0
    /\ genNow = 0
    /\ genBase = [baseTemp |-> 0, baseVibration |-> 0, basePressure |-> 0]
    /\ genI = 0
    /\ dataLen = 0
    /\ reading = <<>>

PassIdle ==
    /\ passPc = "idle"
    /\ newPredictions = <<>>
    /\ classified = <<>>
    /\ mlPredictions = <<>>
    /\ published = <<>>

\* The useState initial values of the classifier, and nothing in progress.
TrainIdle ==
    /\ mlModel = <<>>
    /\ isTraining = FALSE
    /\ trainingProgress = 0
    /\ modelMetrics = [run |-> 0, accuracy |-> 0, precision |-> 0, recall |-> 0, f1Score |-> 0]
    /\ runs = {}
    /\ runStatus = <<>>
    /\ resetTimers = 0
    /\ alertShown = <<>>
    /\ passes = <<>>
    /\ passOutcome = "none"
    /\ passSettled = "none"

\* The useState initial values of EquipmentModule, before the dashboard loaded.
SiteIdle ==
    /\ jobSites = <<>>
    /\ selectedSite = "Downtown Infrastructure Project"
    /\ siteEquipment = <<>>
    /\ loadingEquipment = FALSE
    /\ equipmentCalls = <<>>
    /\ shown = <<>>

\* The useState initial values of the platform before its first load, and a
\* server that has not connected.
LoadIdle ==
    /\ service = [version |-> "apiCall", useMockData |-> FALSE]
    /\ loading = FALSE
    /\ connectionStatus = "disconnected"
    /\ dashboardData = "initial"
    /\ loads = <<>>
    /\ snowflakeConnection = FALSE
    /\ lastResponse = <<>>
    /\ lastHealth = "none"
    /\ lastDashboard = "none"

InitDiag ==
    /\ equipment \in EquipmentInputs
    /\ selectedEquipment = <<>>
    /\ rootCauses = <<>>
    /\ GenIdle
    /\ trainedModel = <<>>
    /\ PassIdle
    /\ TrainIdle
    /\ SiteIdle
    /\ LoadIdle

\* onClick of a map marker or a table row: the popup opens and renders.
SelectEquipment ==
    /\ selectedEquipment = <<>>
    /\ selectedEquipment' = <<equipment>>
    /\ rootCauses' = analyzeRootCause(equipment)
    /\ UNCHANGED <<equipment, genVars, passVars, trainVars, restVars>>

\* onClose of the popup.
ClosePopup ==
    /\ selectedEquipment /= <<>>
    /\ selectedEquipment' = <<>>
    /\ rootCauses' = <<>>
    /\ UNCHANGED <<equipment, genVars, passVars, trainVars, restVars>>

NextDiag == SelectEquipment \/ ClosePopup

SpecDiag == InitDiag /\ [][NextDiag]_vars

(***************************************************************************)
(* Properties of the diagnosis (checked under SpecDiag).                   *)
(***************************************************************************)
PopupOpen == selectedEquipment /= <<>>
HasSensors == equipment.mlPrediction /= <<>>
Sensors == equipment.mlPrediction[1].sensors

CountIssues(issues, sensor, type) ==
    Cardinality({i \in 1..Len(issues) : issues[i].sensor = sensor /\ issues[i].type = type})

CountSensor(issues, sensor) ==
    Cardinality({i \in 1..Len(issues) : issues[i].sensor = sensor})

\* A two-tier channel: one critical issue above hi, one warning issue in
\* (lo, hi], nothing at or below lo.
TwoTier(issues, sensor, value, lo, hi) ==
    /\ CountSensor(issues, sensor) <= 1
    /\ value > hi =>
         /\ CountIssues(issues, sensor, "critical") = 1
         /\ CountIssues(issues, sensor, "warning") = 0
    /\ (value > lo /\ value <= hi) =>
         /\ CountIssues(issues, sensor, "warning") = 1
         /\ CountIssues(issues, sensor, "critical") = 0
    /\ value <= lo => CountSensor(issues, sensor) = 0

\* C1: for a unit whose prediction carries sensor values, Temperature and
\* Vibration each give at most one issue: one critical and no warning above
\* the critical threshold (95 F, 2.0 g), one warning and no critical between
\* the warning threshold (85 F, 1.5 g) and the critical one, none otherwise.
C1_TwoTierChannels ==
    (PopupOpen /\ HasSensors) =>
        /\ TwoTier(rootCauses, "Temperature", Sensors.temperature, 8500, 9500)
        /\ TwoTier(rootCauses, "Vibration", Sensors.vibration, 1500, 2000)

C1_Witness ==
    /\ PopupOpen /\ HasSensors
    /\ Sensors.temperature > 9500
    /\ Sensors.vibration > 1500 /\ Sensors.vibration <= 2000
    /\ CountIssues(rootCauses, "Temperature", "critical") = 1
    /\ CountIssues(rootCauses, "Vibration", "warning") = 1

\* C2: for a unit whose prediction carries sensor values, pressure above
\* 180 PSI gives exactly one critical Pressure issue "Pressure too high",
\* pressure below 80 PSI exactly one warning Pressure issue "Pressure below
\* minimum", and a pressure within 80..180 PSI gives no Pressure issue.
C2_PressureRule ==
    (PopupOpen /\ HasSensors) =>
        LET p == Sensors.pressure
            hits == {i \in 1..Len(rootCauses) : rootCauses[i].sensor = "Pressure"}
        IN  /\ p > 1800 =>
                 /\ Cardinality(hits) = 1
                 /\ \A i \in hits :
                      /\ rootCauses[i].type = "critical"
                      /\ rootCauses[i].status = "CRITICAL - Pressure too high"
            /\ p < 800 =>
                 /\ Cardinality(hits) = 1
                 /\ \A i \in hits :
                      /\ rootCauses[i].type = "warning"
                      /\ rootCauses[i].status = "LOW - Pressure below minimum"
            /\ (p >= 800 /\ p <= 1800) => hits = {}

C2_Witness ==
    /\ PopupOpen /\ HasSensors
    /\ Sensors.pressure > 1800
    /\ CountIssues(rootCauses, "Pressure", "critical") = 1

\* The rows of the diagnosis table whose condition holds for a unit.
MatchedRules(eq) ==
    (IF eq.mlPrediction = <<>> THEN {}
     ELSE LET s == eq.mlPrediction[1].sensors
          IN  {r \in {"Temperature"} : s.temperature > 8500}
              \cup {r \in {"Vibration"} : s.vibration > 1500}
              \cup {r \in {"Pressure"} : s.pressure > 1800 \/ s.pressure < 800}
              \cup {r \in {"Current"} : s.current > 2500})
    \cup {r \in {"System Status"} : eq.status = "critical"}
    \cup {r \in {"Maintenance Schedule"} : eq.status = "maintenance"}
    \cup {r \in {"Uptime"} : eq.uptime < 850}
    \cup {r \in {"Operating Hours"} : eq.operatingHours > 4000}

\* C3: no rule suppresses another: the issues returned for a unit are one
\* per matched row of the table and nothing else, so their number is the
\* number of matched rows whatever their severities.
C3_NoSuppression ==
    PopupOpen =>
        /\ Len(rootCauses) = Cardinality(MatchedRules(equipment))
        /\ {rootCauses[i].sensor : i \in 1..Len(rootCauses)} = MatchedRules(equipment)

C3_Witness ==
    /\ PopupOpen
    /\ Len(rootCauses) = 7
    /\ CountIssues(rootCauses, "System Status", "critical") = 1
    /\ CountIssues(rootCauses, "Temperature", "critical") = 1
    /\ CountIssues(rootCauses, "Operating Hours", "info") = 1

SeverityRank(type) ==
    CASE type = "critical" -> 0
      [] type = "warning" -> 1
      [] OTHER -> 2

OrderedBySeverity(issues) ==
    \A i, j \in 1..Len(issues) :
        i < j => SeverityRank(issues[i].type) <= SeverityRank(issues[j].type)

\* C4 as stated: the sequence of issues analyzeRootCause produces is ordered
\* critical, then warning, then info.
C4_ReturnedOrdered == PopupOpen => OrderedBySeverity(rootCauses)

\* C4 as amended: the issues as the popup displays them (its critical, warning
\* and info filters, rendered in that order) are ordered by severity and are
\* all the issues analyzeRootCause returned, which come in rule order.
C4_DisplayedOrdered ==
    PopupOpen =>
        /\ OrderedBySeverity(displayedIssues)
        /\ Len(displayedIssues) = Len(rootCauses)
        /\ \A i \in 1..Len(rootCauses) :
             \E j \in 1..Len(displayedIssues) : displayedIssues[j] = rootCauses[i]

C4_Witness ==
    /\ PopupOpen
    /\ ~OrderedBySeverity(rootCauses)
    /\ Len(displayedIssues) >= 3
    /\ displayedIssues[1].sensor = "System Status"

\* C5: each single-threshold rule fires exactly when its condition holds,
\* with the table's severity: current above 25 A one warning Current issue
\* and never a critical one; status critical one critical System Status
\* issue, status maintenance one warning Maintenance Schedule issue, never
\* both and none for another status; uptime below 85 % one warning Uptime
\* issue; operating hours above 4000 one info Operating Hours issue.
C5_SingleThresholdRules ==
    PopupOpen =>
        /\ HasSensors =>
             /\ CountIssues(rootCauses, "Current", "warning")
                  = (IF Sensors.current > 2500 THEN 1 ELSE 0)
             /\ CountSensor(rootCauses, "Current")
                  = CountIssues(rootCauses, "Current", "warning")
        /\ CountIssues(rootCauses, "System Status", "critical")
             = (IF equipment.status = "critical" THEN 1 ELSE 0)
        /\ CountSensor(rootCauses, "System Status")
             = CountIssues(rootCauses, "System Status", "critical")
        /\ CountIssues(rootCauses, "Maintenance Schedule", "warning")
             = (IF equipment.status = "maintenance" THEN 1 ELSE 0)
        /\ CountSensor(rootCauses, "Maintenance Schedule")
             = CountIssues(rootCauses, "Maintenance Schedule", "warning")
        /\ CountSensor(rootCauses, "System Status")
             + CountSensor(rootCauses, "Maintenance Schedule") <= 1
        /\ CountIssues(rootCauses, "Uptime", "warning")
             = (IF equipment.uptime < 850 THEN 1 ELSE 0)
        /\ CountSensor(rootCauses, "Uptime") = CountIssues(rootCauses, "Uptime", "warning")
        /\ CountIssues(rootCauses, "Operating Hours", "info")
             = (IF equipment.operatingHours > 4000 THEN 1 ELSE 0)
        /\ CountSensor(rootCauses, "Operating Hours")
             = CountIssues(rootCauses, "Operating Hours", "info")

C5_Witness ==
    /\ PopupOpen /\ HasSensors
    /\ Sensors.current > 2500
    /\ equipment.status = "maintenance"
    /\ equipment.uptime < 850
    /\ equipment.operatingHours > 4000
    /\ CountIssues(rootCauses, "Current", "warning") = 1
    /\ CountIssues(rootCauses, "Maintenance Schedule", "warning") = 1
    /\ CountIssues(rootCauses, "Uptime", "warning") = 1
    /\ CountIssues(rootCauses, "Operating Hours", "info") = 1

(***************************************************************************)
(* generateSensorData.  Inside the loop the channels are kept finer than   *)
(* they are stored: temperature 1/1000 F, vibration 1/10000 g, pressure    *)
(* 1/100 PSI, current 1/1000 A; toFixed then rounds each to the stored     *)
(* unit.  The wave tables hold the periodic terms of sample i:             *)
(*   TempWave[i+1]      = 5 * sin(i/24)    in 1/1000 F                     *)
(*   VibrationWave[i+1] = 0.3 * sin(i/12)  in 1/10000 g                    *)
(*   PressureWave[i+1]  = 10 * cos(i/6)    in 1/100 PSI                    *)
(*   CurrentWave[i+1]   = 3 * sin(i/8)     in 1/1000 A                     *)
(* and HourSin, HourCos the time features sin, cos(2 pi h / 24) in 1/10000.*)
(***************************************************************************)
TempWave ==
    <<0, 208, 416, 623, 829, 1034, 1237, 1438, 1636, 1831, 2024, 2212,
       2397, 2578, 2754, 2925, 3092, 3253, 3408, 3558, 3701, 3838, 3968, 4091,
       4207, 4316, 4418, 4511, 4597, 4675, 4745, 4806, 4860, 4904, 4941, 4968,
       4987, 4998, 5000, 4993, 4977, 4953, 4920, 4879, 4829, 4770, 4704, 4629,
       4546, 4456, 4358, 4252, 4138, 4018, 3890, 3756, 3615, 3468, 3315, 3157,
       2992, 2823, 2649, 2470, 2286, 2099, 1908, 1714, 1517, 1317, 1115, 911>>

VibrationWave ==
    <<0, 250, 498, 742, 982, 1214, 1438, 1652, 1855, 2045, 2221, 2381,
       2524, 2651, 2758, 2847, 2916, 2964, 2992, 3000, 2986, 2952, 2897, 2822,
       2728, 2615, 2483, 2334, 2169, 1989, 1795, 1589, 1372, 1145, 910, 669,
       423, 175, -75, -325, -572, -815, -1052, -1283, -1504, -1715, -1914, -2099,
       -2270, -2426, -2564, -2685, -2787, -2870, -2933, -2975, -2997, -2998, -2978, -2938,
       -2877, -2796, -2696, -2577, -2440, -2286, -2117, -1932, -1735, -1525, -1304, -1075>>

PressureWave ==
    <<1000, 986, 945, 878, 786, 672, 540, 393, 235, 71, -96, -260,
       -416, -561, -691, -801, -889, -953, -990, -1000, -982, -936, -865, -770,
       -654, -519, -370, -211, -46, 121, 284, 439, 582, 709, 816, 901,
       960, 993, 999, 977, 927, 852, 754, 634, 497, 347, 186, 21,
       -146, -308, -461, -602, -726, -830, -911, -967, -996, -997, -971, -918,
       -839, -737, -615, -476, -323, -162, 4, 170, 331, 483, 622, 743>>

CurrentWave ==
    <<0, 374, 742, 1099, 1438, 1755, 2045, 2303, 2524, 2707, 2847, 2943,
       2992, 2996, 2952, 2862, 2728, 2551, 2334, 2081, 1795, 1482, 1145, 790,
       423, 50, -325, -694, -1052, -1394, -1715, -2008, -2270, -2497, -2685, -2831,
       -2933, -2989, -2998, -2960, -2877, -2748, -2577, -2365, -2117, -1835, -1525, -1191,
       -838, -473, -100, 275, 645, 1006, 1350, 1674, 1971, 2238, 2469, 2662,
       2814, 2922, 2984, 2999, 2968, 2890, 2768, 2602, 2395, 2152, 1874, 1567>>

HourSin ==
    <<0, 2588, 5000, 7071, 8660, 9659, 10000, 9659, 8660, 7071, 5000, 2588,
       0, -2588, -5000, -7071, -8660, -9659, -10000, -9659, -8660, -7071, -5000, -2588>>

HourCos ==
    <<10000, 9659, 8660, 7071, 5000, 2588, 0, -2588, -5000, -7071, -8660, -9659,
       -10000, -9659, -8660, -7071, -5000, -2588, 0, 2588, 5000, 7071, 8660, 9659>>

\* The grid of Math.random(): RandSteps equal steps of [0, 1).
RandSteps == 1

\* The largest days argument generateSensorData is called with.
MaxDays == 1

\* Math.random() * range: the multiples k/RandSteps of the range and the
\* largest grid value below it (Math.random() is below 1).
Random(range) ==
    {(k * range) \div RandSteps : k \in 0..(RandSteps - 1)} \cup {range - 1}

Max(a, b) == IF a >= b THEN a ELSE b
Min(a, b) == IF a <= b THEN a ELSE b
Abs(a) == IF a >= 0 THEN a ELSE 0 - a

\* x.toFixed(n): x rounded to the nearest multiple of unit.
toFixed(x, unit) == (2 * x + unit) \div (2 * unit)

\* The three risk components, as numerators over 20000:
\*   (temp - 90) / 20, (vibration - 2) / 1, |pressure - 125| / 25.
\* The temperature component without Math.max(0, ...).
tempScore_unclamped(temp) == temp - 90000

tempScore(temp) == Max(0, temp - 90000)
\* The vibration component measured from 1 g instead of 2 g.
vibrationScore_fromOne(vibration) == Max(0, 2 * (vibration - 10000))

vibrationScore(vibration) == Max(0, 2 * (vibration - 20000))
pressureScore(pressure) == Max(0, 8 * Abs(pressure - 12500))

\* Math.min(1, (tempScore + vibrationScore + pressureScore) / 3), as a
\* numerator over 60000.
failureRiskOf(temp, vibration, pressure) ==
    Min(60000, tempScore(temp) + vibrationScore(vibration) + pressureScore(pressure))

\* The flag with its boundary at 0.8.
maintenanceNeededOf_otherBoundary(failureRisk) ==
    IF 10 * failureRisk > 8 * 60000 THEN 1 ELSE 0

\* failureRisk > 0.7 ? 1 : 0, on the unrounded risk (numerator over 60000).
maintenanceNeededOf(failureRisk) ==
    IF 10 * failureRisk > 7 * 60000 THEN 1 ELSE 0

\* The body of the for loop: the record pushed for sample idx.
sensorReading(equipmentId, d, idx, nowHours, b, noise) ==
    LET temp == b.baseTemp + TempWave[idx + 1] + noise.temp
        vibration == b.baseVibration + VibrationWave[idx + 1] + noise.vibration
        pressure == b.basePressure + PressureWave[idx + 1] + noise.pressure
        current == 15000 + CurrentWave[idx + 1] + noise.current
        failureRisk == failureRiskOf(temp, vibration, pressure)
    IN  [equipmentId |-> equipmentId,
         timestamp |-> nowHours - (d * 24 - idx),
         temperature |-> toFixed(temp, 10),
         vibration |-> toFixed(vibration, 10),
         pressure |-> toFixed(pressure, 10),
         current |-> toFixed(current, 10),
         operatingHours |-> idx + noise.hours,
         failureRisk |-> toFixed(failureRisk, 60),
         maintenance_needed |-> maintenanceNeededOf(failureRisk)]

\* The noise drawn for one sample.
NoiseInputs ==
    [temp : Random(3000), vibration : Random(1000), pressure : Random(500),
     current : Random(2000), hours : Random(1000)]

BaseInputs ==
    {[baseTemp |-> 75000 + t, baseVibration |-> 5000 + v, basePressure |-> 10000 + p] :
        t \in Random(20000), v \in Random(15000), p \in Random(5000)}

\* Date.now() in whole hours: an hour of day 0 and an hour of day 13.
NowInputs == {480000, 480013}

GenIds == {"GEN-001"}

\* No popup is involved: a unit without prediction, nothing selected.
DiagIdle ==
    /\ equipment = [mlPrediction |-> <<>>, status |-> "operational",
                    uptime |-> 950, operatingHours |-> 0]
    /\ selectedEquipment = <<>>
    /\ rootCauses = <<>>

InitGen ==
    /\ DiagIdle
    /\ GenIdle
    /\ trainedModel = <<>>
    /\ PassIdle
    /\ TrainIdle
    /\ SiteIdle
    /\ LoadIdle

\* The loop test with its bound included.
loopTest_inclusive(idx, d) == idx <= d * 24

\* i < days * 24
loopTest(idx, d) == idx < d * 24

\* generateSensorData(equipmentId, days) up to the loop: the bases are drawn.
CallGenerateSensorData ==
    /\ genPc = "idle"
    /\ \E d \in (0 - 1)..MaxDays, n \in NowInputs, b \in BaseInputs :
         /\ genDays' = d
         /\ genNow' = n
         /\ genBase' = b
    /\ genI' = 0
    /\ dataLen' = 0
    /\ reading' = <<>>
    /\ genPc' = "loop"
    /\ UNCHANGED <<diagVars, passVars, trainVars, restVars>>

\* The body of one iteration: data.push({...}).
GenerateSample ==
    /\ genPc = "loop"
    /\ loopTest(genI, genDays)
    /\ \E id \in GenIds, noise \in NoiseInputs :
         reading' = <<sensorReading(id, genDays, genI, genNow, genBase, noise)>>
    /\ dataLen' = dataLen + 1
    /\ genPc' = "pushed"
    /\ UNCHANGED <<genDays, genNow, genBase, genI, diagVars, passVars, trainVars, restVars>>

\* i++ with the loop test true: the next iteration starts, and the record
\* just pushed is no longer the one at hand.
NextIteration ==
    /\ genPc = "pushed"
    /\ loopTest(genI + 1, genDays)
    /\ genI' = genI + 1
    /\ reading' = <<>>
    /\ genPc' = "loop"
    /\ UNCHANGED <<genDays, genNow, genBase, dataLen, diagVars, passVars, trainVars, restVars>>

\* The loop test fails, at the first test or after i++: return data, whose
\* last element is the record pushed last.
ReturnSensorData ==
    /\ \/ genPc = "loop" /\ ~loopTest(genI, genDays) /\ genI' = genI
       \/ genPc = "pushed" /\ ~loopTest(genI + 1, genDays) /\ genI' = genI + 1
    /\ genPc' = "returned"
    /\ UNCHANGED <<genDays, genNow, genBase, dataLen, reading, diagVars, passVars, trainVars, restVars>>

NextGen ==
    CallGenerateSensorData \/ GenerateSample \/ NextIteration \/ ReturnSensorData

SpecGen == InitGen /\ [][NextGen]_vars

\* C10: every reading generateSensorData produces has a failureRisk within
\* [0, 1] (0..1000 in thousandths), for every draw of the bases and noise.
C10_FailureRiskInUnitInterval ==
    reading /= <<>> => (reading[1].failureRisk >= 0 /\ reading[1].failureRisk <= 1000)

C10_Witness ==
    /\ reading /= <<>>
    /\ dataLen = 24
    /\ reading[1].failureRisk > 700
    /\ reading[1].failureRisk <= 1000

(***************************************************************************)
(* generateMLPredictions.  A classifier output (riskLevel, the first entry *)
(* of prediction.data()) is a multiple of 1/PScale in 0..PScale; the       *)
(* reported failureProbability is in tenths of a percent.                  *)
(***************************************************************************)
PScale == 10000

currentEquipment == <<"GEN-234", "PMP-156", "COM-789", "MIX-445", "GEN-567">>

\* new Date(timestamp).getHours()
getHours(timestamp) == timestamp % 24

\* The tensor built at prediction time: seven features, each a fraction
\* <<numerator, denominator>> of the stored fixed-point values.
predictionFeatures(latestReading) ==
    << <<latestReading.temperature, 100 * 100>>,
       <<latestReading.vibration, 3 * 1000>>,
       <<latestReading.pressure, 200 * 10>>,
       <<latestReading.current, 30 * 100>>,
       <<HourSin[getHours(latestReading.timestamp) + 1], 10000>>,
       <<HourCos[getHours(latestReading.timestamp) + 1], 10000>>,
       <<latestReading.operatingHours, 10000>> >>

\* The training-time row with vibration and pressure exchanged.
prepareMLDataFeatures_exchanged(record) ==
    << <<record.temperature, 100 * 100>>,
       <<record.pressure, 200 * 10>>,
       <<record.vibration, 3 * 1000>>,
       <<record.current, 30 * 100>>,
       <<HourSin[getHours(record.timestamp) + 1], 10000>>,
       <<HourCos[getHours(record.timestamp) + 1], 10000>>,
       <<record.operatingHours, 10000>> >>

\* prepareMLData: the feature row built from one record at training time.
prepareMLDataFeatures(record) ==
    << <<record.temperature, 100 * 100>>,
       <<record.vibration, 3 * 1000>>,
       <<record.pressure, 200 * 10>>,
       <<record.current, 30 * 100>>,
       <<HourSin[getHours(record.timestamp) + 1], 10000>>,
       <<HourCos[getHours(record.timestamp) + 1], 10000>>,
       <<record.operatingHours, 10000>> >>

\* prepareMLData: the label of one record.
prepareMLDataLabel(record) == record.maintenance_needed

\* (riskLevel * 100).toFixed(1), in tenths of a percent.
failureProbabilityOf(riskLevel) == toFixed(1000 * riskLevel, PScale)

\* The tier with its boundaries included (>= in place of >).
riskLevelOf_inclusive(riskLevel) ==
    IF 10 * riskLevel >= 7 * PScale THEN "high"
    ELSE IF 10 * riskLevel >= 4 * PScale THEN "medium"
    ELSE "low"

\* The tier with the two lower outcomes exchanged.
riskLevelOf_swapped(riskLevel) ==
    IF 10 * riskLevel > 7 * PScale THEN "high"
    ELSE IF 10 * riskLevel > 4 * PScale THEN "low"
    ELSE "medium"

\* riskLevel > 0.7 ? 'high' : riskLevel > 0.4 ? 'medium' : 'low'
riskLevelOf(riskLevel) ==
    IF 10 * riskLevel > 7 * PScale THEN "high"
    ELSE IF 10 * riskLevel > 4 * PScale THEN "medium"
    ELSE "low"

\* The days without Math.max(1, ...).
daysUntilMaintenanceOf_noFloor(riskLevel) == ((PScale - riskLevel) * 30) \div PScale

\* Math.max(1, Math.floor((1 - riskLevel) * 30))
daysUntilMaintenanceOf(riskLevel) == Max(1, ((PScale - riskLevel) * 30) \div PScale)

\* The action with its own medium boundary at 0.5.
recommendedActionOf_otherBoundary(riskLevel) ==
    IF 10 * riskLevel > 7 * PScale THEN "Schedule immediate maintenance"
    ELSE IF 10 * riskLevel > 5 * PScale THEN "Plan maintenance within 2 weeks"
    ELSE "Continue normal operations"

recommendedActionOf(riskLevel) ==
    IF 10 * riskLevel > 7 * PScale THEN "Schedule immediate maintenance"
    ELSE IF 10 * riskLevel > 4 * PScale THEN "Plan maintenance within 2 weeks"
    ELSE "Continue normal operations"

\* The record pushed to newPredictions for one roster unit.
makePrediction(equipmentId, latestReading, riskLevel, nowHours) ==
    [equipmentId |-> equipmentId,
     failureProbability |-> failureProbabilityOf(riskLevel),
     riskLevel |-> riskLevelOf(riskLevel),
     daysUntilMaintenance |-> daysUntilMaintenanceOf(riskLevel),
     recommendedAction |-> recommendedActionOf(riskLevel),
     sensors |-> [temperature |-> latestReading.temperature,
                  vibration |-> latestReading.vibration,
                  pressure |-> latestReading.pressure,
                  current |-> latestReading.current],
     lastUpdated |-> nowHours]

\* The draws behind the last sample of generateSensorData(equipmentId, 1):
\* every Math.random() at its least value, or every one at its greatest.
LeastDraw ==
    [now |-> 480000,
     base |-> [baseTemp |-> 75000, baseVibration |-> 5000, basePressure |-> 10000],
     noise |-> [temp |-> 0, vibration |-> 0, pressure |-> 0, current |-> 0, hours |-> 0]]

GreatestDraw ==
    [now |-> 480013,
     base |-> [baseTemp |-> 75000 + 20000 - 1, baseVibration |-> 5000 + 15000 - 1,
               basePressure |-> 10000 + 5000 - 1],
     noise |-> [temp |-> 3000 - 1, vibration |-> 1000 - 1, pressure |-> 500 - 1,
                current |-> 2000 - 1, hours |-> 1000 - 1]]

PassDraws == {LeastDraw, GreatestDraw}

\* The first sample of the series instead of the last.
latestReadingOf_first(equipmentId, draw) ==
    sensorReading(equipmentId, 1, 0, draw.now, draw.base, draw.noise)

\* recentData[recentData.length - 1] of generateSensorData(equipmentId, 1):
\* the sample of index 1 * 24 - 1.
latestReadingOf(equipmentId, draw) ==
    sensorReading(equipmentId, 1, 1 * 24 - 1, draw.now, draw.base, draw.noise)

\* A trained model answers predict() as a function of the feature tensor.
FeatureInputs == {predictionFeatures(latestReadingOf("", d)) : d \in PassDraws}

ProbabilityInputs ==
    {0, PScale} \cup {(t * PScale) \div 10 + d : t \in {4, 7}, d \in {0, 4}}

ModelInputs == [FeatureInputs -> ProbabilityInputs]

InitPred ==
    /\ DiagIdle
    /\ GenIdle
    /\ trainedModel \in {<<>>} \cup {<<m>> : m \in ModelInputs}
    /\ PassIdle
    /\ TrainIdle
    /\ SiteIdle
    /\ LoadIdle

\* generateMLPredictions(trainedModel): return at once without a model,
\* else enter the loop over the roster with an empty newPredictions.
CallGenerateMLPredictions ==
    /\ passPc \in {"idle", "done"}
    /\ passPc' = IF trainedModel = <<>> THEN "done" ELSE "loop"
    /\ newPredictions' = <<>>
    /\ classified' = <<>>
    /\ UNCHANGED <<trainedModel, mlPredictions, published, diagVars, genVars, trainVars, restVars>>

\* One iteration: synthesize the unit's latest reading, classify it, push.
PredictUnit ==
    /\ passPc = "loop"
    /\ Len(newPredictions) < Len(currentEquipment)
    /\ \E draw \in PassDraws :
         LET equipmentId == currentEquipment[Len(newPredictions) + 1]
             latestReading == latestReadingOf(equipmentId, draw)
             riskLevel == trainedModel[1][predictionFeatures(latestReading)]
         IN  /\ newPredictions' =
                   Append(newPredictions,
                          makePrediction(equipmentId, latestReading, riskLevel, draw.now))
             /\ classified' =
                   Append(classified, [reading |-> latestReading, output |-> riskLevel])
    /\ UNCHANGED <<trainedModel, passPc, mlPredictions, published, diagVars, genVars, trainVars, restVars>>

\* predict() or data() throws: the catch logs the error and the call ends.
PredictionFails ==
    /\ passPc = "loop"
    /\ Len(newPredictions) < Len(currentEquipment)
    /\ passPc' = "done"
    /\ UNCHANGED <<trainedModel, newPredictions, classified, mlPredictions, published,
                   diagVars, genVars, trainVars, restVars>>

\* After the loop: setMlPredictions(newPredictions).
PublishPredictions ==
    /\ passPc = "loop"
    /\ Len(newPredictions) = Len(currentEquipment)
    /\ mlPredictions' = newPredictions
    /\ published' = classified
    /\ passPc' = "done"
    /\ UNCHANGED <<trainedModel, newPredictions, classified, diagVars, genVars, trainVars, restVars>>

NextPred ==
    CallGenerateMLPredictions \/ PredictUnit \/ PredictionFails \/ PublishPredictions

SpecPred == InitPred /\ [][NextPred]_vars

(***************************************************************************)
(* Properties of the published predictions (checked under SpecPred).       *)
(***************************************************************************)
Published == 1..Len(mlPredictions)

\* C6 as stated: riskLevel is the step function of the reported
\* failureProbability percentage: high exactly above 70, medium exactly in
\* (40, 70], low exactly at or below 40.
C6_TierOfReportedPercentage ==
    \A k \in Published :
        LET fp == mlPredictions[k].failureProbability
            tier == mlPredictions[k].riskLevel
        IN  /\ tier = "high" <=> fp > 700
            /\ tier = "medium" <=> (fp > 400 /\ fp <= 700)
            /\ tier = "low" <=> fp <= 400

\* C6 as amended: riskLevel is the step function of the classifier's
\* unrounded output p (high exactly when p > 0.7, medium when 0.4 < p <= 0.7,
\* low when p <= 0.4) and failureProbability is 100 p rounded to one decimal;
\* so a reported percentage above 70 is high, one below 70 is not high, one
\* above 40 is not low and one below 40 is low, while a reported 70.0 or 40.0
\* may carry the next tier up.
C6_TierOfClassifierOutput ==
    \A k \in Published :
        LET p == published[k].output
            fp == mlPredictions[k].failureProbability
            tier == mlPredictions[k].riskLevel
        IN  /\ tier = "high" <=> 10 * p > 7 * PScale
            /\ tier = "medium" <=> (10 * p > 4 * PScale /\ 10 * p <= 7 * PScale)
            /\ tier = "low" <=> 10 * p <= 4 * PScale
            /\ 2 * PScale * fp - PScale <= 2000 * p
            /\ 2000 * p < 2 * PScale * fp + PScale
            /\ fp > 700 => tier = "high"
            /\ fp < 700 => tier /= "high"
            /\ fp > 400 => tier /= "low"
            /\ fp < 400 => tier = "low"

C6_Witness ==
    \E k \in Published :
        /\ mlPredictions[k].riskLevel = "high"
        /\ mlPredictions[k].failureProbability = 700
        /\ 10 * published[k].output > 7 * PScale

TierRank(tier) ==
    CASE tier = "low" -> 0
      [] tier = "medium" -> 1
      [] tier = "high" -> 2

\* C7: the risk tier is monotonic in the classifier output: of two outputs
\* p1 < p2 the tier of p1 is not above the tier of p2 (low < medium < high).
C7_TierMonotonic ==
    \A j, k \in Published :
        published[j].output < published[k].output =>
            TierRank(mlPredictions[j].riskLevel) <= TierRank(mlPredictions[k].riskLevel)

C7_Witness ==
    \E j, k \in Published :
        /\ published[j].output < published[k].output
        /\ mlPredictions[j].riskLevel = "medium"
        /\ mlPredictions[k].riskLevel = "high"

\* C8: for every classifier output p in [0, 1], daysUntilMaintenance is
\* max(1, floor((1 - p) * 30)), an integer within 1..30, and of two outputs
\* p1 < p2 the days of p2 are at most the days of p1.
C8_DaysUntilMaintenance ==
    /\ \A k \in Published :
         LET p == published[k].output
             days == mlPredictions[k].daysUntilMaintenance
         IN  /\ p >= 0 /\ p <= PScale
             /\ days \in 1..30
             /\ \/ days * PScale <= (PScale - p) * 30 /\ (PScale - p) * 30 < (days + 1) * PScale
                \/ days = 1 /\ (PScale - p) * 30 < PScale
    /\ \A j, k \in Published :
         published[j].output < published[k].output =>
             mlPredictions[k].daysUntilMaintenance <= mlPredictions[j].daysUntilMaintenance

C8_Witness ==
    \E j, k \in Published :
        /\ published[j].output = 0
        /\ mlPredictions[j].daysUntilMaintenance = 30
        /\ published[k].output = PScale
        /\ mlPredictions[k].daysUntilMaintenance = 1

ActionTable(tier) ==
    CASE tier = "high" -> "Schedule immediate maintenance"
      [] tier = "medium" -> "Plan maintenance within 2 weeks"
      [] tier = "low" -> "Continue normal operations"

\* C9: recommendedAction is determined by riskLevel through the fixed table
\* (high: schedule immediate maintenance, medium: plan within 2 weeks, low:
\* continue normal operations); equal riskLevel means equal recommendedAction.
C9_ActionFromTier ==
    /\ \A k \in Published :
         mlPredictions[k].recommendedAction = ActionTable(mlPredictions[k].riskLevel)
    /\ \A j, k \in Published :
         mlPredictions[j].riskLevel = mlPredictions[k].riskLevel =>
             mlPredictions[j].recommendedAction = mlPredictions[k].recommendedAction

C9_Witness ==
    \E j, k \in Published :
        /\ j /= k
        /\ mlPredictions[j].riskLevel = "medium"
        /\ mlPredictions[k].riskLevel = "medium"
        /\ published[j].output /= published[k].output
        /\ mlPredictions[j].recommendedAction = "Plan maintenance within 2 weeks"

(***************************************************************************)
(* The classifier: trainPredictiveModel, the Train and Refresh buttons,    *)
(* the refresh interval, and concurrent calls of generateMLPredictions.    *)
(* Every action is one run of JavaScript between two awaits; React state   *)
(* is the value committed when that run ends.  Progress is in tenths of a  *)
(* percent.                                                                *)
(***************************************************************************)
MaxRuns == 2      \* calls of trainPredictiveModel in one behaviour
MaxPasses == 1    \* calls of generateMLPredictions started from the UI and not yet ended

\* epochs: 20
Epochs == 20

\* The single-call variables of generateMLPredictions, untouched here.
callVars == <<trainedModel, passPc, newPredictions, classified, published>>

\* Math.random() at the prediction pass of the platform.
RefreshDraws == {GreatestDraw}

\* What fit can leave in the model: the answers predict() gives afterwards.
FitResults == {[x \in FeatureInputs |-> p] : p \in {(4 * PScale) \div 10, PScale}}

\* error.message of what tf or fit throws.
ErrorInputs == {"backend", "shape"}

\* history.history.val_accuracy / .accuracy: absent, or a last entry (per mille).
HistoryInputs == {<<>>, <<0>>, <<875>>}

\* Math.random() of the three displayed metrics, in thousandths.
MetricDraws == {500}

\* A button that is never disabled.
trainButtonDisabled_never == FALSE

\* disabled={isTraining}
trainButtonDisabled == isTraining

\* A guard that lets every call through.
noModel_never(model) == FALSE

\* if (!trainedModel) return;
noModel(model) == model = <<>>

\* The progress of an epoch with the whole range counted per epoch.
epochProgress_overshoot(epoch) == 600 + epoch * 30

\* onEpochEnd: 60 + (epoch / 20) * 30
epochProgress(epoch) == 600 + (epoch * 300) \div 20

\* The alert without the message of the error.
alertText_generic(message) == <<"Training failed: ">>

\* alert(`Training failed: ${error.message}`)
alertText(message) == <<"Training failed: ", message>>

\* val_accuracy?.[last] || accuracy?.[last] || 0.9, per mille.
finalAccuracyOf(valAccuracy, accuracy) ==
    IF valAccuracy /= <<>> /\ valAccuracy[1] /= 0 THEN valAccuracy[1]
    ELSE IF accuracy /= <<>> /\ accuracy[1] /= 0 THEN accuracy[1]
    ELSE 900

\* The object handed to setModelMetrics; run tells the objects of two calls apart.
metricsOf(run, finalAccuracy, r1, r2, r3) ==
    [run |-> run,
     accuracy |-> toFixed(finalAccuracy * 100, 100),
     precision |-> toFixed(85 * 1000 + r1 * 10, 100),
     recall |-> toFixed(82 * 1000 + r2 * 8, 100),
     f1Score |-> toFixed(83 * 1000 + r3 * 7, 100)]

RemoveAt(s, i) == SubSeq(s, 1, i - 1) \o SubSeq(s, i + 1, Len(s))

ReplaceRun(r, q) == (runs \ {r}) \cup {q}

InitTrain ==
    /\ DiagIdle
    /\ GenIdle
    /\ trainedModel = <<>>
    /\ PassIdle
    /\ TrainIdle
    /\ SiteIdle
    /\ LoadIdle

\* generateMLPredictions(model) up to its first await: return at once
\* without a model, else start the loop with an empty newPredictions.
generateMLPredictions(model, owner) ==
    IF noModel(model)
    THEN /\ passOutcome' = "returned"
         /\ passSettled' = "resolved"
         /\ UNCHANGED passes
    ELSE /\ passes' = Append(passes, [trainedModel |-> model, owner |-> owner,
                                      newPredictions |-> <<>>])
         /\ UNCHANGED <<passOutcome, passSettled>>

\* The catch and finally blocks: the alert, then the timer that resets the flag.
trainingFailed(message) ==
    /\ alertShown' = <<alertText(message)>>
    /\ resetTimers' = resetTimers + 1

\* Train button: the call runs up to await model.fit(...).
TrainPredictiveModel ==
    /\ ~trainButtonDisabled
    /\ Len(runStatus) < MaxRuns
    /\ isTraining' = TRUE
    /\ trainingProgress' = 600
    /\ runStatus' = Append(runStatus, "running")
    /\ runs' = runs \cup {[id |-> Len(runStatus) + 1, pc |-> "fit", epoch |-> 0,
                           model |-> <<>>]}
    /\ UNCHANGED <<mlModel, modelMetrics, resetTimers, alertShown, passes, passOutcome, passSettled,
                   mlPredictions, callVars, diagVars, genVars, restVars>>

\* Train button: something before the fit throws (generating the data, the
\* tensors, the layers, compile, or the start of fit), after the progress
\* reached one of its first values.
TrainingSetupFails ==
    /\ ~trainButtonDisabled
    /\ Len(runStatus) < MaxRuns
    /\ isTraining' = TRUE
    /\ \E reached \in {0, 200, 400, 600} : trainingProgress' = reached
    /\ runStatus' = Append(runStatus, "failed")
    /\ \E message \in ErrorInputs : trainingFailed(message)
    /\ UNCHANGED <<mlModel, modelMetrics, runs, passes, passOutcome, passSettled,
                   mlPredictions, callVars, diagVars, genVars, restVars>>

\* onEpochEnd(epoch, logs)
EpochEnd ==
    \E r \in runs :
        /\ r.pc = "fit"
        /\ r.epoch < Epochs
        /\ trainingProgress' = epochProgress(r.epoch)
        /\ runs' = ReplaceRun(r, [r EXCEPT !.epoch = @ + 1])
        /\ UNCHANGED <<mlModel, modelMetrics, isTraining, runStatus, resetTimers,
                       alertShown, passes, passOutcome, passSettled,
                       mlPredictions, callVars, diagVars, genVars, restVars>>

\* A failed fit that also takes the installed model away.
TrainingFails_reverts ==
    \E r \in runs :
        /\ r.pc = "fit"
        /\ runStatus' = [runStatus EXCEPT ![r.id] = "failed"]
        /\ runs' = runs \ {r}
        /\ mlModel' = <<>>
        /\ \E message \in ErrorInputs : trainingFailed(message)
        /\ UNCHANGED <<modelMetrics, isTraining, trainingProgress, passes,
                       passOutcome, passSettled, mlPredictions, callVars, diagVars, genVars, restVars>>

\* A failed fit that installs its model all the same.
TrainingFails_installs ==
    \E r \in runs :
        /\ r.pc = "fit"
        /\ runStatus' = [runStatus EXCEPT ![r.id] = "failed"]
        /\ runs' = runs \ {r}
        /\ \E f \in FitResults : mlModel' = <<[run |-> r.id, predict |-> f]>>
        /\ \E message \in ErrorInputs : trainingFailed(message)
        /\ UNCHANGED <<modelMetrics, isTraining, trainingProgress, passes,
                       passOutcome, passSettled, mlPredictions, callVars, diagVars, genVars, restVars>>

\* await model.fit(...) rejects: catch, finally.
TrainingFails ==
    \E r \in runs :
        /\ r.pc = "fit"
        /\ runStatus' = [runStatus EXCEPT ![r.id] = "failed"]
        /\ runs' = runs \ {r}
        /\ \E message \in ErrorInputs : trainingFailed(message)
        /\ UNCHANGED <<mlModel, modelMetrics, isTraining, trainingProgress, passes,
                       passOutcome, passSettled, mlPredictions, callVars, diagVars, genVars, restVars>>

\* await model.fit(...) resolves after the last epoch: progress 95, the
\* metrics, setMlModel(model), then the 500 ms delay starts.
FitCompletes ==
    \E r \in runs :
        /\ r.pc = "fit"
        /\ r.epoch = Epochs
        /\ trainingProgress' = 950
        /\ \E valAccuracy \in HistoryInputs, accuracy \in HistoryInputs,
              r1 \in MetricDraws, r2 \in MetricDraws, r3 \in MetricDraws :
             modelMetrics' = metricsOf(r.id, finalAccuracyOf(valAccuracy, accuracy),
                                       r1, r2, r3)
        /\ \E f \in FitResults :
             LET model == <<[run |-> r.id, predict |-> f]>>
             IN  /\ mlModel' = model
                 /\ runs' = ReplaceRun(r, [r EXCEPT !.pc = "delay", !.model = model])
        /\ runStatus' = [runStatus EXCEPT ![r.id] = "fitted"]
        /\ UNCHANGED <<isTraining, resetTimers, alertShown, passes, passOutcome, passSettled,
                       mlPredictions, callVars, diagVars, genVars, restVars>>

\* The delay is over: setTrainingProgress(100).
DelayElapses ==
    \E r \in runs :
        /\ r.pc = "delay"
        /\ trainingProgress' = 1000
        /\ runs' = ReplaceRun(r, [r EXCEPT !.pc = "call"])
        /\ UNCHANGED <<mlModel, modelMetrics, isTraining, runStatus, resetTimers,
                       alertShown, passes, passOutcome, passSettled,
                       mlPredictions, callVars, diagVars, genVars, restVars>>

\* await generateMLPredictions(model), in the same run of JavaScript as
\* DelayElapses and split from it to keep the steps of the pass apart.
TrainingCallsPredictions ==
    \E r \in runs :
        /\ r.pc = "call"
        /\ generateMLPredictions(r.model, r.id)
        /\ runs' = ReplaceRun(r, [r EXCEPT !.pc = "predicting"])
        /\ UNCHANGED <<classifierVars, runStatus, resetTimers, alertShown,
                       mlPredictions, callVars, diagVars, genVars, restVars>>

\* The pass of the run has ended: dispose the tensors, finally.
TrainingCompletes ==
    \E r \in runs :
        /\ r.pc = "predicting"
        /\ \A i \in 1..Len(passes) : passes[i].owner /= r.id
        /\ runs' = runs \ {r}
        /\ resetTimers' = resetTimers + 1
        /\ UNCHANGED <<classifierVars, runStatus, alertShown, passes, passOutcome, passSettled,
                       mlPredictions, callVars, diagVars, genVars, restVars>>

\* A timer that clears the flag and leaves the progress where it was.
ResetTraining_keepsProgress ==
    /\ resetTimers > 0
    /\ resetTimers' = resetTimers - 1
    /\ isTraining' = FALSE
    /\ UNCHANGED <<mlModel, modelMetrics, trainingProgress, runs, runStatus, alertShown,
                   passes, passOutcome, passSettled, mlPredictions, callVars, diagVars,
                   genVars, restVars>>

\* The timer of the finally block: setIsTraining(false), setTrainingProgress(0).
ResetTraining ==
    /\ resetTimers > 0
    /\ resetTimers' = resetTimers - 1
    /\ isTraining' = FALSE
    /\ trainingProgress' = 0
    /\ UNCHANGED <<mlModel, modelMetrics, runs, runStatus, alertShown, passes,
                   passOutcome, passSettled, mlPredictions, callVars, diagVars, genVars, restVars>>

\* Refresh Predictions button, rendered when mlModel is set.
RefreshPredictions ==
    /\ mlModel /= <<>>
    /\ Len(passes) < MaxPasses
    /\ generateMLPredictions(mlModel, 0)
    /\ UNCHANGED <<classifierVars, runs, runStatus, resetTimers, alertShown,
                   mlPredictions, callVars, diagVars, genVars, restVars>>

\* The five-minute interval, set when mlModel is set.
AutoRefresh ==
    /\ mlModel /= <<>>
    /\ Len(passes) < MaxPasses
    /\ generateMLPredictions(mlModel, 0)
    /\ UNCHANGED <<classifierVars, runs, runStatus, resetTimers, alertShown,
                   mlPredictions, callVars, diagVars, genVars, restVars>>

\* generateMLPredictions() called while no model is installed (no element of
\* the page does so; the function is also taken on its own).
CallWithoutModel ==
    /\ mlModel = <<>>
    /\ Len(passes) < MaxPasses
    /\ generateMLPredictions(mlModel, 0)
    /\ UNCHANGED <<classifierVars, runs, runStatus, resetTimers, alertShown,
                   mlPredictions, callVars, diagVars, genVars, restVars>>

\* One iteration of a suspended pass: the reading, predict, data, push.
PassPredictUnit ==
    \E i \in 1..Len(passes), draw \in RefreshDraws :
        LET pass == passes[i]
            equipmentId == currentEquipment[Len(pass.newPredictions) + 1]
            latestReading == latestReadingOf(equipmentId, draw)
            riskLevel == pass.trainedModel[1].predict[predictionFeatures(latestReading)]
        IN  /\ pass.trainedModel /= <<>>
            /\ Len(pass.newPredictions) < Len(currentEquipment)
            /\ passes' = [passes EXCEPT ![i].newPredictions =
                              Append(@, makePrediction(equipmentId, latestReading,
                                                       riskLevel, draw.now))]
            /\ UNCHANGED <<classifierVars, runs, runStatus, resetTimers, alertShown,
                           passOutcome, passSettled, mlPredictions, callVars, diagVars, genVars, restVars>>

\* predict() or data() throws inside the loop: the catch logs the error and
\* the async function returns, so its promise resolves.
PassFails ==
    \E i \in 1..Len(passes) :
        /\ Len(passes[i].newPredictions) < Len(currentEquipment)
        /\ passes' = RemoveAt(passes, i)
        /\ passOutcome' = "failed"
        /\ passSettled' = "resolved"
        /\ UNCHANGED <<classifierVars, runs, runStatus, resetTimers, alertShown,
                       mlPredictions, callVars, diagVars, genVars, restVars>>

\* A pass that ends the progress display when it publishes.
PassPublishes_endsTraining ==
    \E i \in 1..Len(passes) :
        /\ Len(passes[i].newPredictions) = Len(currentEquipment)
        /\ mlPredictions' = passes[i].newPredictions
        /\ passes' = RemoveAt(passes, i)
        /\ passOutcome' = "published"
        /\ passSettled' = "resolved"
        /\ isTraining' = FALSE
        /\ trainingProgress' = 0
        /\ UNCHANGED <<mlModel, modelMetrics, runs, runStatus, resetTimers, alertShown,
                       callVars, diagVars, genVars, restVars>>

\* After the loop: setMlPredictions(newPredictions).
PassPublishes ==
    \E i \in 1..Len(passes) :
        /\ Len(passes[i].newPredictions) = Len(currentEquipment)
        /\ mlPredictions' = passes[i].newPredictions
        /\ passes' = RemoveAt(passes, i)
        /\ passOutcome' = "published"
        /\ passSettled' = "resolved"
        /\ UNCHANGED <<classifierVars, runs, runStatus, resetTimers, alertShown,
                       callVars, diagVars, genVars, restVars>>

NextTrain ==
    \/ TrainPredictiveModel
    \/ TrainingSetupFails
    \/ EpochEnd
    \/ TrainingFails
    \/ FitCompletes
    \/ DelayElapses
    \/ TrainingCallsPredictions
    \/ TrainingCompletes
    \/ ResetTraining
    \/ RefreshPredictions
    \/ AutoRefresh
    \/ CallWithoutModel
    \/ PassPredictUnit
    \/ PassFails
    \/ PassPublishes

SpecTrain == InitTrain /\ [][NextTrain]_vars

\* A step of the pass that a training run awaits.
RunPassStep ==
    /\ PassPredictUnit \/ PassFails \/ PassPublishes
    /\ \E i \in 1..Len(passes) :
           /\ passes[i].owner /= 0
           /\ \/ passes' = RemoveAt(passes, i)
              \/ Len(passes') = Len(passes) /\ passes'[i] /= passes[i]

\* A step of a training run: the fit goes on or settles, the delay elapses,
\* the pass of the run starts and goes on whatever other passes do, the run
\* ends, or the reset timer fires.
TrainingStep ==
    \/ EpochEnd
    \/ TrainingFails
    \/ FitCompletes
    \/ DelayElapses
    \/ TrainingCallsPredictions
    \/ RunPassStep
    \/ TrainingCompletes
    \/ ResetTraining

\* The event loop runs a continuation or timer of a training run whenever
\* one is ready.
SpecTrainFair == SpecTrain /\ WF_vars(TrainingStep)

(***************************************************************************)
(* Further properties of the generated readings (checked under SpecGen).   *)
(***************************************************************************)
\* C11 as stated: maintenance_needed is 1 exactly when the failureRisk field
\* of the same reading is greater than 0.7, and 0 otherwise.
C11_FlagOfStoredRisk ==
    reading /= <<>> =>
        reading[1].maintenance_needed = (IF reading[1].failureRisk > 700 THEN 1 ELSE 0)

\* C11 as amended: the flag is taken from the risk before it is rounded to
\* three decimals, so it is 1 whenever the stored failureRisk is above 0.7,
\* 0 whenever it is below 0.7, and either of the two when it is exactly 0.700.
C11_FlagOfUnroundedRisk ==
    reading /= <<>> =>
        /\ reading[1].maintenance_needed \in {0, 1}
        /\ reading[1].failureRisk > 700 => reading[1].maintenance_needed = 1
        /\ reading[1].failureRisk < 700 => reading[1].maintenance_needed = 0

C11_Witness ==
    /\ reading /= <<>>
    /\ reading[1].failureRisk = 700
    /\ reading[1].maintenance_needed = 1

\* C12: generateSensorData(id, days) returns exactly days * 24 readings for
\* every days >= 0, and the empty sequence for a negative days.
C12_SeriesLength ==
    genPc = "returned" =>
        dataLen = (IF genDays >= 0 THEN genDays * 24 ELSE 0)

C12_Witness ==
    /\ genPc = "returned"
    /\ genDays = 1
    /\ dataLen = 24
    /\ reading /= <<>>

\* C17: the feature vector has exactly 7 entries in the order temperature/100,
\* vibration/3, pressure/200, current/30, sin and cos of 2 pi hour / 24,
\* operatingHours/10000, and the vector built at prediction time equals,
\* entry by entry, the one prepareMLData builds for the same reading.
C17_FeatureVector ==
    reading /= <<>> =>
        LET r == reading[1]
            atTraining == prepareMLDataFeatures(r)
            atPrediction == predictionFeatures(r)
            hour == r.timestamp % 24
        IN  /\ Len(atTraining) = 7
            /\ Len(atPrediction) = 7
            /\ \A k \in 1..7 : atPrediction[k] = atTraining[k]
            /\ atTraining[1] = <<r.temperature, 10000>>
            /\ atTraining[2] = <<r.vibration, 3000>>
            /\ atTraining[3] = <<r.pressure, 2000>>
            /\ atTraining[4] = <<r.current, 3000>>
            /\ atTraining[5] = <<HourSin[hour + 1], 10000>>
            /\ atTraining[6] = <<HourCos[hour + 1], 10000>>
            /\ atTraining[7] = <<r.operatingHours, 10000>>

C17_Witness ==
    /\ reading /= <<>>
    /\ reading[1].timestamp % 24 = 6
    /\ reading[1].vibration * 2 /= reading[1].pressure * 3
    /\ prepareMLDataFeatures(reading[1])[5] = <<10000, 10000>>

\* The risk formula applied to stored values (temperature 1/100 F, vibration
\* 1/1000 g, pressure 1/10 PSI), as a numerator over 6000:
\* clamp((max(0,(t-90)/20) + max(0,(v-2)/1) + max(0,|p-125|/25)) / 3, 0, 1).
RiskOfStored(t, v, p) ==
    LET ts == IF t > 9000 THEN t - 9000 ELSE 0
        vs == IF v > 2000 THEN 2 * (v - 2000) ELSE 0
        ps == IF p > 1250 THEN 8 * (p - 1250) ELSE 8 * (1250 - p)
        sum == ts + vs + ps
    IN  IF sum > 6000 THEN 6000 ELSE IF sum < 0 THEN 0 ELSE sum

\* C20 as stated: the stored failureRisk is the clamped mean of the three
\* scores of the stored temperature, vibration and pressure (to the three
\* decimals it is stored with), so equal stored channels give equal risk.
C20_RiskOfStoredChannels ==
    reading /= <<>> =>
        LET r == reading[1]
        IN  r.failureRisk = (2 * RiskOfStored(r.temperature, r.vibration, r.pressure) + 6) \div 12

\* C20 as amended: failureRisk is computed from the channels before they are
\* rounded and each field is then rounded on its own, so the stored
\* failureRisk lies within 0.0015 of the clamped mean of the scores of the
\* stored channels, and need not equal it.
C20_RiskNearStoredChannels ==
    reading /= <<>> =>
        LET r == reading[1]
            gap == 12 * r.failureRisk - 2 * RiskOfStored(r.temperature, r.vibration, r.pressure)
        IN  gap <= 17 /\ gap >= 0 - 17

C20_Witness ==
    /\ reading /= <<>>
    /\ reading[1].failureRisk > 0
    /\ reading[1].failureRisk
         /= (2 * RiskOfStored(reading[1].temperature, reading[1].vibration,
                              reading[1].pressure) + 6) \div 12

(***************************************************************************)
(* Properties of the classifier's life cycle (checked under SpecTrain).    *)
(***************************************************************************)
\* The call of trainPredictiveModel started last has failed, and none since.
LastRunFailed == runStatus /= <<>> /\ runStatus[Len(runStatus)] = "failed"

\* The calls of trainPredictiveModel whose fit resolved.
FittedRuns == {n \in 1..Len(runStatus) : runStatus[n] = "fitted"}

\* The tag of the last fitted run, 0 when there is none.
LastFitted == IF FittedRuns = {} THEN 0
              ELSE CHOOSE n \in FittedRuns : \A m \in FittedRuns : m <= n

\* C13: while mlModel is null the published prediction set is empty, and a
\* call of generateMLPredictions in that state returns at once: it raises
\* nothing, leaves no pass behind and does not change the set, whatever
\* prediction requests and failed training runs came before.
C13_NoModelNoPredictions ==
    mlModel = <<>> =>
        /\ mlPredictions = <<>>
        /\ passes = <<>>
        /\ passOutcome \in {"none", "returned"}

C13_Witness ==
    /\ mlModel = <<>>
    /\ passOutcome = "returned"
    /\ runStatus = <<"failed", "failed">>
    /\ alertShown /= <<>>
    /\ mlPredictions = <<>>

\* C14: mlModel becomes a model only in the step in which a run's fit has
\* completed (after its last epoch), and the installed model always belongs
\* to a run whose fit resolved, never to a failed one.
C14_InstalledByFittedRun ==
    [][/\ mlModel' /= <<>> => mlModel'[1].run \in {n \in 1..Len(runStatus') :
                                                      runStatus'[n] = "fitted"}
       /\ mlModel' /= mlModel =>
              \E r \in runs : /\ r.pc = "fit"
                              /\ r.epoch = Epochs
                              /\ mlModel' /= <<>>
                              /\ mlModel'[1].run = r.id]_vars

C14_Witness ==
    /\ runStatus = <<"failed", "fitted">>
    /\ mlModel /= <<>>
    /\ mlModel[1].run = 2

\* C15 as stated: after a failed training run no model is installed (mlModel
\* is null) whatever was installed before, and the error message is shown.
C15_FailureLeavesUntrained ==
    LastRunFailed =>
        /\ mlModel = <<>>
        /\ alertShown \in {<< <<"Training failed: ", m>> >> : m \in ErrorInputs}

\* C15 as amended: a failed training run leaves mlModel and modelMetrics as
\* they were before the run (the model and metrics of the last run whose fit
\* resolved, null and the zero metrics when there is none), retains nothing
\* of the failed run, and shows "Training failed: <message>".
C15_FailureKeepsPrevious ==
    LastRunFailed =>
        /\ mlModel = <<>> <=> LastFitted = 0
        /\ mlModel /= <<>> => mlModel[1].run = LastFitted
        /\ modelMetrics.run = LastFitted
        /\ LastFitted = 0 => modelMetrics.accuracy = 0
        /\ alertShown \in {<< <<"Training failed: ", m>> >> : m \in ErrorInputs}

C15_Witness ==
    /\ runStatus = <<"fitted", "failed">>
    /\ mlModel /= <<>>
    /\ mlModel[1].run = 1
    /\ modelMetrics.run = 1
    /\ alertShown /= <<>>

\* C16: at most one training run is in flight, the delay before the flag is
\* reset included: while a run or its reset timer is pending isTraining is
\* true, and no second run is started.
C16_OneRunInFlight ==
    /\ Cardinality(runs) + resetTimers <= 1
    /\ (runs /= {} \/ resetTimers > 0) => isTraining

C16_Witness ==
    /\ Len(runStatus) = 1
    /\ runs = {}
    /\ resetTimers = 1
    /\ isTraining

\* C18: a step of a prediction pass (its start, an iteration, its failure,
\* its publication) leaves mlModel, modelMetrics, isTraining and
\* trainingProgress unchanged, also with several passes in progress.
C18_PassKeepsClassifier ==
    [][(passes' /= passes \/ mlPredictions' /= mlPredictions
                          \/ passOutcome' /= passOutcome)
          => UNCHANGED <<mlModel, modelMetrics, isTraining, trainingProgress>>]_vars

C18_Witness ==
    /\ Len(passes) = 2
    /\ \A i \in 1..2 : Len(passes[i].newPredictions) > 0
    /\ passOutcome = "published"
    /\ mlPredictions /= <<>>
    /\ isTraining
    /\ trainingProgress = 1000

\* C19: trainingProgress stays within 0..100, does not decrease while a
\* training run is in flight, and is 100 only when the last run's fit resolved.
C19_ProgressMonotone ==
    [][/\ trainingProgress' \in 0..1000
       /\ runs /= {} => trainingProgress' >= trainingProgress
       /\ trainingProgress' = 1000 =>
              /\ runStatus' /= <<>>
              /\ runStatus'[Len(runStatus')] = "fitted"]_vars

C19_Witness ==
    /\ trainingProgress = 885
    /\ \E r \in runs : r.pc = "fit" /\ r.epoch = Epochs

(***************************************************************************)
(* Properties of a completed prediction pass (checked under SpecPred).     *)
(***************************************************************************)
\* C21: a pass that completes publishes exactly one Prediction per roster
\* identifier, in roster order, and the four sensor values of each are those
\* of the last sample (the one an hour before the call) of the one-day
\* series synthesized and classified for that identifier.
C21_OnePredictionPerUnit ==
    mlPredictions /= <<>> =>
        /\ Len(mlPredictions) = Len(currentEquipment)
        /\ Len(published) = Len(currentEquipment)
        /\ \A k \in 1..Len(currentEquipment) :
             LET prediction == mlPredictions[k]
                 sample == published[k].reading
             IN  /\ prediction.equipmentId = currentEquipment[k]
                 /\ sample.equipmentId = currentEquipment[k]
                 /\ sample.timestamp = prediction.lastUpdated - 1
                 /\ prediction.sensors.temperature = sample.temperature
                 /\ prediction.sensors.vibration = sample.vibration
                 /\ prediction.sensors.pressure = sample.pressure
                 /\ prediction.sensors.current = sample.current

C21_Witness ==
    /\ passPc = "done"
    /\ Len(mlPredictions) = 5
    /\ mlPredictions[1].sensors /= mlPredictions[2].sensors
    /\ mlPredictions[5].equipmentId = "GEN-567"

(***************************************************************************)
(* Failure of a prediction pass (checked under SpecTrain).                 *)
(***************************************************************************)
\* C22: when inference fails for a roster unit during a pass, the failure is
\* surfaced to the caller as an error (the call rejects, or a notice is
\* shown), and no partial prediction set is published.
C22_InferenceFailureSurfaced ==
    /\ passOutcome = "failed" => passSettled = "rejected"
    /\ mlPredictions /= <<>> => Len(mlPredictions) = Len(currentEquipment)

\* C25: once no prediction pass and no training run is in flight and the
\* last pass has published, the published predictions are what the
\* currently installed model computes: a pass started with an older model
\* has not overwritten them.
C25_PublishedByInstalledModel ==
    (passes = <<>> /\ runs = {} /\ passOutcome = "published" /\ mlModel /= <<>>) =>
        \A k \in 1..Len(mlPredictions) :
            \E x \in FeatureInputs :
                mlPredictions[k].failureProbability =
                    failureProbabilityOf(mlModel[1].predict[x])

(***************************************************************************)
(* The end of a training run (checked under SpecTrainFair).                *)
(***************************************************************************)
\* C26: every training run, successful or failed, is eventually followed by
\* a state with isTraining false and trainingProgress 0.
C26_TrainingEnds ==
    isTraining ~> (~isTraining /\ trainingProgress = 0)

\* A failed run and a successful run have both ended and been reset.
C26_Witness ==
    /\ runStatus = <<"failed", "fitted">>
    /\ runs = {}
    /\ resetTimers = 0
    /\ ~isTraining
    /\ trainingProgress = 0

(***************************************************************************)
(* EquipmentModule: the site selector, loadSiteEquipment, the popup opened *)
(* on a loaded unit, and getMaintenanceStats.  Uptime is in tenths of a    *)
(* percent, as in analyzeRootCause.                                        *)
(***************************************************************************)
MaxEquipmentCalls == 2   \* calls of loadSiteEquipment waiting at the same time

\* The names the select element offers once the dashboard has loaded.
SiteNames == <<"Downtown Infrastructure Project", "Highway 101 Expansion">>

\* e.STATUS.toLowerCase()
toLowerCase(status) ==
    CASE status = "OPERATIONAL" -> "operational"
      [] status = "MAINTENANCE" -> "maintenance"
      [] status = "CRITICAL" -> "critical"
      [] status = "IDLE" -> "idle"
      [] OTHER -> status

\* value || fallback, for a number that may be missing: 0 is falsy as well.
orDefault(value, fallback) ==
    IF value = <<>> \/ value[1] = 0 THEN fallback ELSE value[1]

\* mlPredictions.find(p => p.equipmentId === id): <<>> for undefined.
findPrediction(predictions, id) ==
    LET hits == {k \in 1..Len(predictions) : predictions[k].equipmentId = id}
    IN  IF hits = {} THEN <<>>
        ELSE <<predictions[CHOOSE k \in hits : \A j \in hits : k <= j]>>

\* The fields of a processed unit that the popup and the statistics read.
processEquipment(e, predictions) ==
    [id |-> e.EQUIPMENT_ID,
     status |-> IF e.STATUS /= <<>> THEN toLowerCase(e.STATUS[1]) ELSE "operational",
     uptime |-> orDefault(e.UPTIME_PERCENTAGE, 950),
     operatingHours |-> orDefault(e.OPERATING_HOURS, 0),
     mlPrediction |-> findPrediction(predictions, e.EQUIPMENT_ID)]

\* The rows the backend reports for a unit of the roster (a unit the
\* predictions do not know is the case of no predictions on display).
RowInputs ==
    [EQUIPMENT_ID : {"GEN-234"},
     STATUS : {<<>>, <<"OPERATIONAL">>, <<"MAINTENANCE">>, <<"critical">>, <<"IDLE">>,
               <<"offline">>},
     UPTIME_PERCENTAGE : {<<>>, <<0>>, <<UptimeMinimum - 1>>, <<UptimeMinimum>>},
     OPERATING_HOURS : {<<>>}]

\* data.equipment: no rows, or one row.
ResponseInputs == {<<>>} \cup {<<row>> : row \in RowInputs}

\* The prediction sets on display while the module loads: none, or one pass
\* whose units all got the same answer from the model.
SitePredictionInputs ==
    {<<>>} \cup
    {[k \in 1..Len(currentEquipment) |->
          makePrediction(currentEquipment[k],
                         latestReadingOf(currentEquipment[k], LeastDraw),
                         p, LeastDraw.now)] : p \in {0, PScale \div 2, PScale}}

Count(units, Test(_)) == Cardinality({k \in 1..Len(units) : Test(units[k])})

IsHigh(e) == e.mlPrediction /= <<>> /\ e.mlPrediction[1].riskLevel = "high"
IsMedium(e) == e.mlPrediction /= <<>> /\ e.mlPrediction[1].riskLevel = "medium"
IsLowOrNone(e) == e.mlPrediction = <<>> \/ e.mlPrediction[1].riskLevel = "low"

NeedsUrgent_highOnly(e) == IsHigh(e)

NeedsUrgent(e) == IsHigh(e) \/ e.status = "critical"
NeedsSoon(e) == IsMedium(e) \/ e.status = "maintenance"
IsOperational(e) == e.status = "operational" /\ IsLowOrNone(e)
IsIdle(e) == e.status = "idle"

\* getMaintenanceStats()
getMaintenanceStats ==
    [total |-> Len(siteEquipment),
     needsUrgentMaintenance |-> Count(siteEquipment, NeedsUrgent),
     needsSoonMaintenance |-> Count(siteEquipment, NeedsSoon),
     operational |-> Count(siteEquipment, IsOperational),
     idle |-> Count(siteEquipment, IsIdle)]

InitSite ==
    /\ DiagIdle
    /\ GenIdle
    /\ trainedModel = <<>>
    /\ passPc = "idle"
    /\ newPredictions = <<>>
    /\ classified = <<>>
    /\ published = <<>>
    /\ mlPredictions \in SitePredictionInputs
    /\ TrainIdle
    /\ SiteIdle
    /\ LoadIdle

\* loadSiteEquipment() up to its await: nothing without job sites.
loadSiteEquipment(sites, site) ==
    IF sites = <<>>
    THEN UNCHANGED <<loadingEquipment, equipmentCalls>>
    ELSE /\ loadingEquipment' = TRUE
         /\ equipmentCalls' = Append(equipmentCalls, [site |-> site])

\* The dashboard has loaded its job sites: the effect calls loadSiteEquipment.
JobSitesLoaded ==
    /\ jobSites = <<>>
    /\ jobSites' = SiteNames
    /\ loadSiteEquipment(SiteNames, selectedSite)
    /\ UNCHANGED <<selectedSite, siteEquipment, shown,
                   diagVars, genVars, passVars, trainVars, loadVars>>

\* onChange of the select element: the effect calls loadSiteEquipment.
SelectSite ==
    \E k \in 1..Len(jobSites) :
        /\ jobSites[k] /= selectedSite
        /\ Len(equipmentCalls) < MaxEquipmentCalls
        /\ selectedSite' = jobSites[k]
        /\ loadSiteEquipment(jobSites, jobSites[k])
        /\ UNCHANGED <<jobSites, siteEquipment, shown,
                       diagVars, genVars, passVars, trainVars, loadVars>>

\* getEquipmentData resolved for one of the waiting calls: the rows are
\* processed and displayed, then finally.
EquipmentArrives ==
    \E i \in 1..Len(equipmentCalls), rows \in ResponseInputs :
        /\ siteEquipment' = [k \in 1..Len(rows) |-> processEquipment(rows[k], mlPredictions)]
        /\ shown' = <<[site |-> equipmentCalls[i].site, rows |-> rows]>>
        /\ loadingEquipment' = FALSE
        /\ equipmentCalls' = RemoveAt(equipmentCalls, i)
        /\ UNCHANGED <<jobSites, selectedSite,
                       diagVars, genVars, passVars, trainVars, loadVars>>

\* Processing the rows throws (a row without EQUIPMENT_ID): catch, finally.
EquipmentProcessingFails ==
    \E i \in 1..Len(equipmentCalls) :
        /\ siteEquipment' = <<>>
        /\ shown' = <<[site |-> equipmentCalls[i].site, rows |-> <<>>]>>
        /\ loadingEquipment' = FALSE
        /\ equipmentCalls' = RemoveAt(equipmentCalls, i)
        /\ UNCHANGED <<jobSites, selectedSite,
                       diagVars, genVars, passVars, trainVars, loadVars>>

\* onClick of a unit on display: the popup opens on it and renders.
OpenPopup ==
    \E k \in 1..Len(siteEquipment) :
        /\ selectedEquipment = <<>>
        /\ equipment' = siteEquipment[k]
        /\ selectedEquipment' = <<siteEquipment[k]>>
        /\ rootCauses' = analyzeRootCause(siteEquipment[k])
        /\ UNCHANGED <<genVars, passVars, trainVars, restVars>>

NextSite ==
    \/ JobSitesLoaded
    \/ SelectSite
    \/ EquipmentArrives
    \/ EquipmentProcessingFails
    \/ OpenPopup
    \/ ClosePopup

SpecSite == InitSite /\ [][NextSite]_vars

(***************************************************************************)
(* Properties of the loaded equipment (checked under SpecSite).            *)
(***************************************************************************)
\* C23: every loaded unit whose reported UPTIME_PERCENTAGE is below 85,
\* 0 included, gets exactly one warning Uptime issue when it is diagnosed.
C23_ReportedUptimeDiagnosed ==
    shown /= <<>> =>
        \A k \in 1..Len(siteEquipment) :
            LET reported == shown[1].rows[k].UPTIME_PERCENTAGE
                issues == analyzeRootCause(siteEquipment[k])
            IN  (reported /= <<>> /\ reported[1] < UptimeMinimum) =>
                    /\ CountIssues(issues, "Uptime", "warning") = 1
                    /\ CountSensor(issues, "Uptime") = 1

\* C29: once no equipment request is in flight, the units on display are the
\* response to the request made for the currently selected site.
C29_EquipmentOfSelectedSite ==
    (equipmentCalls = <<>> /\ shown /= <<>>) => shown[1].site = selectedSite

\* The statuses getMaintenanceStats knows.
KnownStatuses == {"operational", "maintenance", "critical", "idle"}

StatsSum ==
    LET stats == getMaintenanceStats
    IN  stats.needsUrgentMaintenance + stats.needsSoonMaintenance
          + stats.operational + stats.idle

\* C30 as stated: the four counts of getMaintenanceStats sum to total.
C30_StatsPartition == StatsSum = Len(siteEquipment)

\* C30, amended: when every unit has one of the four known statuses, each is
\* counted once or twice, so the counts sum to at least total and at most
\* twice total; they sum to total when no unit has a medium or high
\* prediction.
C30_StatsCover ==
    (\A k \in 1..Len(siteEquipment) : siteEquipment[k].status \in KnownStatuses) =>
        /\ Len(siteEquipment) <= StatsSum
        /\ StatsSum <= 2 * Len(siteEquipment)
        /\ (\A k \in 1..Len(siteEquipment) : IsLowOrNone(siteEquipment[k])) =>
               StatsSum = Len(siteEquipment)

\* An idle unit with a high prediction is on display, counted as urgent and
\* as idle.
C30_Witness ==
    /\ Len(siteEquipment) = 1
    /\ siteEquipment[1].status = "idle"
    /\ IsHigh(siteEquipment[1])
    /\ getMaintenanceStats.needsUrgentMaintenance = 1
    /\ getMaintenanceStats.idle = 1
    /\ StatsSum = 2

(***************************************************************************)
(* loadDataFromSnowflake, the two versions of SnowflakeAPIService it may   *)
(* run against, and the dashboard-data endpoint of the server.             *)
(***************************************************************************)
MaxLoads == 2   \* calls of loadDataFromSnowflake waiting at the same time

\* The service at src/services/SnowflakeAPIService.js: the version built on
\* apiCall, or the version with direct fetches and the useMockData switch.
ServiceInputs ==
    {[version |-> "apiCall", useMockData |-> FALSE],
     [version |-> "direct", useMockData |-> FALSE],
     [version |-> "direct", useMockData |-> TRUE]}

\* How a fetch ends: it rejects, answers with a non-OK status, answers OK
\* with a body that is not JSON, or answers OK with JSON.
FetchOutcomes == {"network", "notOk", "badJson", "ok"}

\* What express.json() hands to the handler: it rejects a malformed body, and
\* leaves req.body undefined or {} (by the version of express) without one.
BodyInputs == {"malformed", "undefined", "empty", "config"}

\* connectToSnowflake and the queries of the handler.
BackendOutcomes == {"fails", "ok"}

\* testConnection(): success.
testConnection(svc, outcome) ==
    IF svc.version = "apiCall"
    THEN TRUE   \* apiCall has caught the failure and returned mock data
    ELSE ~svc.useMockData /\ outcome = "ok"

\* POST /api/snowflake/dashboard-data, behind express.json() and before the
\* error handling middleware: the response, and the connection afterwards.
dashboardDataEndpoint(body, connected, connect, query) ==
    IF body = "malformed"
    THEN [body |-> body, status |-> 500, dataSource |-> "none", connection |-> connected]
    ELSE IF ~connected /\ body = "undefined"
    THEN [body |-> body, status |-> 200, dataSource |-> "mock_error", connection |-> connected]
    ELSE IF ~connected /\ body = "config" /\ connect = "fails"
    THEN [body |-> body, status |-> 200, dataSource |-> "mock", connection |-> FALSE]
    ELSE IF connected \/ body = "config"
    THEN [body |-> body, status |-> 200,
          dataSource |-> IF query = "ok" THEN "snowflake_live_privatekey"
                         ELSE "mock_fallback",
          connection |-> TRUE]
    ELSE [body |-> body, status |-> 200, dataSource |-> "mock", connection |-> FALSE]

getDashboardData_rejects(svc, outcome, response) ==
    IF outcome = "network" THEN "rejected" ELSE "mock_client"

\* getDashboardData(): where the payload it resolves with came from.
getDashboardData(svc, outcome, response) ==
    IF svc.version = "apiCall"
    THEN IF outcome = "ok" THEN "backend" ELSE "mock_client"
    ELSE IF svc.useMockData THEN "mock_client"
    ELSE IF outcome = "ok" THEN response.dataSource
    ELSE "mock_client"

InitLoad ==
    /\ DiagIdle
    /\ GenIdle
    /\ trainedModel = <<>>
    /\ PassIdle
    /\ TrainIdle
    /\ SiteIdle
    /\ service \in ServiceInputs
    /\ loading = FALSE
    /\ connectionStatus = "disconnected"
    /\ dashboardData = "initial"
    /\ loads = <<>>
    /\ snowflakeConnection = FALSE
    /\ lastResponse = <<>>
    /\ lastHealth = "none"
    /\ lastDashboard = "none"

\* The platform has mounted once a load has started.
Mounted == loads /= <<>> \/ connectionStatus /= "disconnected"

\* loadDataFromSnowflake() up to its first await.
loadDataFromSnowflake ==
    /\ loading' = TRUE
    /\ loads' = Append(loads, "testConnection")
    /\ UNCHANGED <<service, connectionStatus, dashboardData, snowflakeConnection,
                   lastResponse, lastHealth, lastDashboard,
                   diagVars, genVars, passVars, trainVars, siteVars>>

\* The effect that runs on mount.
MountLoad ==
    /\ ~Mounted
    /\ loadDataFromSnowflake

\* The 5 minute interval fires.
TimerLoad ==
    /\ Mounted
    /\ Len(loads) < MaxLoads
    /\ loadDataFromSnowflake

\* onClick of the refresh button, disabled while loading.
ButtonLoad ==
    /\ Mounted
    /\ ~loading
    /\ Len(loads) < MaxLoads
    /\ loadDataFromSnowflake

\* testConnection has settled for one of the waiting loads.
HealthSettles ==
    \E i \in 1..Len(loads), outcome \in FetchOutcomes :
        /\ loads[i] = "testConnection"
        /\ connectionStatus' =
               IF testConnection(service, outcome) THEN "connected" ELSE "error"
        /\ lastHealth' = IF service.version = "direct" /\ service.useMockData
                         THEN "none" ELSE outcome
        /\ loads' = [loads EXCEPT ![i] = "getDashboardData"]
        /\ UNCHANGED <<service, loading, dashboardData, snowflakeConnection,
                       lastResponse, lastDashboard,
                       diagVars, genVars, passVars, trainVars, siteVars>>

\* getDashboardData has settled for one of the waiting loads; the rest of
\* loadDataFromSnowflake runs, with its catch and finally.
DashboardSettles ==
    \E i \in 1..Len(loads), outcome \in FetchOutcomes,
       connect \in BackendOutcomes, query \in BackendOutcomes :
        LET asks == service.version = "direct" /\ ~service.useMockData
                      /\ outcome = "ok"
            response == dashboardDataEndpoint("config", snowflakeConnection,
                                              connect, query)
            payload == getDashboardData(service, outcome, response)
        IN  /\ loads[i] = "getDashboardData"
            /\ snowflakeConnection' =
                   IF asks THEN response.connection ELSE snowflakeConnection
            /\ lastResponse' = IF asks THEN <<response>> ELSE lastResponse
            /\ lastDashboard' = payload
            /\ IF payload = "rejected"
               THEN /\ connectionStatus' = "error"
                    /\ UNCHANGED dashboardData
               ELSE /\ dashboardData' = payload
                    /\ UNCHANGED connectionStatus
            /\ loading' = FALSE
            /\ loads' = RemoveAt(loads, i)
            /\ UNCHANGED <<service, lastHealth,
                           diagVars, genVars, passVars, trainVars, siteVars>>

\* Another client posts to the dashboard-data endpoint.
EndpointRequest ==
    \E body \in BodyInputs, connect \in BackendOutcomes, query \in BackendOutcomes :
        LET response == dashboardDataEndpoint(body, snowflakeConnection, connect, query)
        IN  /\ snowflakeConnection' = response.connection
            /\ lastResponse' = <<response>>
            /\ UNCHANGED <<service, loading, connectionStatus, dashboardData, loads,
                           lastHealth, lastDashboard,
                           diagVars, genVars, passVars, trainVars, siteVars>>

NextLoad ==
    \/ MountLoad
    \/ TimerLoad
    \/ ButtonLoad
    \/ HealthSettles
    \/ DashboardSettles
    \/ EndpointRequest

SpecLoad == InitLoad /\ [][NextLoad]_vars

(***************************************************************************)
(* Properties of the dashboard loads (checked under SpecLoad).             *)
(***************************************************************************)
DashboardPayloads ==
    {"backend", "mock_client", "mock", "mock_fallback", "mock_error",
     "snowflake_live_privatekey"}

\* C24 as stated: getDashboardData resolves with a payload and never
\* rejects, and the endpoint answers every request with a payload rather
\* than an error status.
C24_AlwaysAPayload ==
    /\ lastDashboard \in DashboardPayloads \cup {"none"}
    /\ lastResponse /= <<>> =>
           /\ lastResponse[1].status = 200
           /\ lastResponse[1].dataSource \in DashboardPayloads

\* C24, amended: getDashboardData resolves with a payload and never rejects,
\* and the endpoint answers every request whose body express.json() accepts
\* with a payload rather than an error status.
C24_PayloadForParsedRequests ==
    /\ lastDashboard \in DashboardPayloads \cup {"none"}
    /\ (lastResponse /= <<>> /\ lastResponse[1].body /= "malformed") =>
           /\ lastResponse[1].status = 200
           /\ lastResponse[1].dataSource \in DashboardPayloads

\* A load has finished on mock data after its request failed on the way, and
\* the endpoint has answered a request with the payload of its outer catch.
C24_Witness ==
    /\ lastDashboard = "mock_client"
    /\ dashboardData = "mock_client"
    /\ loads = <<>>
    /\ lastHealth = "network"
    /\ lastResponse /= <<>>
    /\ lastResponse[1].dataSource = "mock_error"

\* C27: connectionStatus is 'connected' only if the health request was
\* answered successfully by the backend.
C27_ConnectedOnlyIfAnswered ==
    connectionStatus = "connected" => lastHealth = "ok"

\* C28: loading is true whenever a load is in flight and false once all
\* loads have finished.
C28_LoadingWhileInFlight ==
    loading = (loads /= <<>>)

====
